---- MODULE Spec2Model ----
(***************************************************************************)
(* ProductService (catalogue lookup) and CartService (cart aggregator) of  *)
(* integration-tests/ejemplos-claros.                                      *)
(*                                                                         *)
(* Money.  The code computes with JavaScript numbers.  The model keeps the *)
(* decimal value of every amount exactly, as an integer count of a fixed   *)
(* unit:                                                                   *)
(*     price                       cents           (1e-2)                  *)
(*     priceWithTax, subtotal      1/100 cent      (1e-4)                  *)
(*     unrounded discount, total   1/10000 cent    (1e-6)                  *)
(*     reported figures            cents                                   *)
(* A binary double differs from the decimal value by a relative error of   *)
(* about 1e-16.  That error decides the outcome only where the decimal     *)
(* value sits exactly on a boundary: Math.round of a value ending in       *)
(* exactly half a cent, and `subtotal > 500` at exactly 500.  At those     *)
(* points the model takes either outcome (the tie parameter of             *)
(* getCartSummary); everywhere else the decimal value decides.             *)
(***************************************************************************)
EXTENDS Integers, Sequences, FiniteSets, TLC

VARIABLES
    heap,     \* the cart line objects ever created; a line reference is an index
    items,    \* items[c]: this.items of CartService c, an array of line references
    calls,    \* the async calls in flight, in start order
    nAdds,    \* addProduct calls started so far
    held,     \* the array the caller last got from getItems()
    last,     \* the operation that completed last, with what it returned
    catalog   \* catalog[id]: the prices the remote API may serve for product id

vars == <<heap, items, calls, nAdds, held, last, catalog>>

(***************************************************************************)
(* Bounds                                                                  *)
(***************************************************************************)
MaxAdds == 2          \* addProduct calls per run of Spec
MaxRaceAdds == 2      \* addProduct calls per run of SpecRace
MaxInFlight == 2      \* async calls in flight at once in SpecRace
MaxPricingAdds == 3   \* addProduct calls per run of SpecPricing
MaxCallerAdds == 2    \* addProduct calls per run of SpecCaller

Carts == {1}
ProductIds == {1, 2, 3}
MainIds == {1, 2}
Quantities == {1, 2}
Draws == {1, 3, 4}      \* Math.random() in tenths: 0.1, 0.3, 0.4
Causes == {"Network timeout", "API caida"}
Flags == {"cmp", "subtotal", "discount", "total"}
Ties == [Flags -> BOOLEAN]
WrittenQuantity == 7        \* a quantity the caller writes into a returned line

Title(id) == CASE id = 1 -> "MacBook Pro"
               [] id = 2 -> "Magic Mouse"
               [] OTHER -> "Magic Keyboard"

\* The remote catalogue of Spec: product 1 changes price across the tax
\* threshold, product 2 costs exactly 100, product 3 is expensive.
MainCatalog == (1 :> {8000, 15000}) @@ (2 :> {10000}) @@ (3 :> {20000})

\* The catalogues of SpecPricing, one fixed price per product (cents).
Fixed(p1, p2, p3) == (1 :> {p1}) @@ (2 :> {p2}) @@ (3 :> {p3})
PricingCatalogs ==
    { Fixed(200000, 8000, 15000),     \* bigbang-claro.test.js: 2000, 80, 150
      Fixed(150000, 5000, 20000),     \* incremental test: 1500, 50; 200
      Fixed(99900, 2500, 10000),      \* incremental test: 999, 25; 100
      Fixed(24367, 9990, 120000),     \* 243.67 + 2 x 99.90 -> 500.0005
      Fixed(24365, 9991, 10001),      \* 243.65 + 2 x 99.91 -> 499.9995
      Fixed(10792, 8543, 43479) }     \* 107.92 + 4 x 85.43 -> 500 exactly

(***************************************************************************)
(* Helpers                                                                 *)
(***************************************************************************)
\* A reduce whose callback returns the item instead of adding it to sum.
SumOverKeepsLast(f, s) == IF s = <<>> THEN 0 ELSE f[s[Len(s)]]

RECURSIVE SumOver(_, _)
SumOver(f, s) == IF s = <<>> THEN 0 ELSE f[Head(s)] + SumOver(f, Tail(s))

RemoveAt(s, k) == SubSeq(s, 1, k - 1) \o SubSeq(s, k + 1, Len(s))

Elems(s) == {s[i] : i \in 1..Len(s)}

NoProduct == [id |-> 0, title |-> "", price |-> 0, isExpensive |-> FALSE,
              priceWithTax |-> 0]

(***************************************************************************)
(* The remote API: axios.get(`${apiUrl}/products/${id}`) resolves with the *)
(* product data or rejects with an error.                                  *)
(***************************************************************************)
AxiosGet(id) ==
    { [ok |-> TRUE, data |-> [id |-> id, title |-> Title(id), price |-> p],
       message |-> <<>>] : p \in catalog[id] }
    \cup
    { [ok |-> FALSE, data |-> [id |-> id, title |-> "", price |-> 0],
       message |-> <<m>>] : m \in Causes }

(***************************************************************************)
(* ProductService                                                          *)
(***************************************************************************)
\* calculateTax with the 15% rate from 100 on, instead of above 100.
calculateTaxFrom100(price) ==
    LET taxRate == IF price >= 100 * 100 THEN 15 ELSE 10
    IN  price * 100 + price * taxRate

\* calculateTax(price): price + price * taxRate, taxRate 15% above 100, else 10%.
\* price in cents, result in 1/100 cent.
calculateTax(price) ==
    LET taxRate == IF price > 100 * 100 THEN 15 ELSE 10
    IN  price * 100 + price * taxRate

\* getProduct(productId), given the settled axios.get: the product, or the
\* error `No se pudo obtener el producto: ${error.message}`.
getProduct(resp) ==
    IF resp.ok
    THEN [ok |-> TRUE,
          product |-> [id |-> resp.data.id,
                       title |-> resp.data.title,
                       price |-> resp.data.price,
                       isExpensive |-> resp.data.price > 100 * 100,
                       priceWithTax |-> calculateTax(resp.data.price)],
          message |-> <<>>]
    ELSE [ok |-> FALSE, product |-> NoProduct,
          message |-> <<"No se pudo obtener el producto: ">> \o resp.message]

\* isProductAvailable whose catch answers true.
isProductAvailableFailsOpen(resp, random) ==
    LET r == getProduct(resp)
    IN  IF r.ok THEN (~r.product.isExpensive) \/ random > 3
        ELSE TRUE

\* isProductAvailable with && for ||: the draw decides for every product.
isProductAvailableAnd(resp, random) ==
    LET r == getProduct(resp)
    IN  IF r.ok THEN (~r.product.isExpensive) /\ random > 3
        ELSE FALSE

\* isProductAvailable with >= for >: a draw of exactly 0.3 is available.
isProductAvailableFrom03(resp, random) ==
    LET r == getProduct(resp)
    IN  IF r.ok THEN (~r.product.isExpensive) \/ random >= 3
        ELSE FALSE

\* isProductAvailable(productId), given the settled axios.get of its own
\* getProduct and the value of Math.random() (tenths).
isProductAvailable(resp, random) ==
    LET r == getProduct(resp)
    IN  IF r.ok THEN (~r.product.isExpensive) \/ random > 3
        ELSE FALSE

(***************************************************************************)
(* CartService                                                             *)
(***************************************************************************)
Line(c, i) == heap[items[c][i]]

\* The lines of cart c, by value, in array order.
CartLines(c) == [i \in 1..Len(items[c]) |-> heap[items[c][i]]]

\* find comparing a field the lines do not have: it never finds a line.
FindItemNever(arr, productId) == 0

\* this.items.find(item => item.productId === productId): the index in the
\* array of the first line with that productId, 0 when there is none.
FindItem(arr, productId) ==
    LET hits == {i \in 1..Len(arr) : heap[arr[i]].productId = productId}
    IN  IF hits = {} THEN 0 ELSE CHOOSE i \in hits : \A j \in hits : i <= j

\* An async call as it suspends at its first fetch.  overlaps: it was started
\* while another addProduct for the same product of the same cart was in flight.
Call(op, c, productId, quantity) ==
    [op |-> op, cart |-> c, productId |-> productId, quantity |-> quantity,
     pc |-> "getProduct", product |-> NoProduct, live |-> TRUE, arr |-> <<>>,
     idx |-> 0, item |-> 0, results |-> <<>>, fetches |-> 1,
     overlaps |-> \E j \in 1..Len(calls) :
                     /\ calls[j].op = "addProduct" /\ op = "addProduct"
                     /\ calls[j].cart = c /\ calls[j].productId = productId]

\* addProduct(productId, quantity) up to its first await: getProduct issues
\* the fetch and the call suspends.
AddProductCall(c, productId, quantity, maxAdds, maxInFlight) ==
    /\ nAdds < maxAdds
    /\ Len(calls) < maxInFlight
    /\ calls' = Append(calls, Call("addProduct", c, productId, quantity))
    /\ nAdds' = nAdds + 1
    /\ UNCHANGED <<heap, items, held, last, catalog>>

\* What a rejected addProduct reports: `No se pudo agregar al carrito: ${error.message}`.
AddRejected(call, message) ==
    [op |-> "addProduct", cart |-> call.cart, productId |-> call.productId,
     quantity |-> call.quantity, ok |-> FALSE, item |-> 0,
     message |-> <<"No se pudo agregar al carrito: ">> \o message,
     fetches |-> call.fetches, overlapped |-> call.overlaps]

\* What a fulfilled addProduct reports: the line, new or updated.
AddFulfilled(call, ref) ==
    [op |-> "addProduct", cart |-> call.cart, productId |-> call.productId,
     quantity |-> call.quantity, ok |-> TRUE, item |-> ref, message |-> <<>>,
     fetches |-> call.fetches, overlapped |-> call.overlaps]

\* addProduct that has started isProductAvailable together with getProduct:
\* when the lookup fails, the second fetch has been issued already.
AddProductFetchedBoth(k, resp) ==
    /\ k \in 1..Len(calls)
    /\ calls[k].op = "addProduct"
    /\ calls[k].pc = "getProduct"
    /\ resp \in AxiosGet(calls[k].productId)
    /\ LET r == getProduct(resp) IN
       IF r.ok
       THEN /\ calls' = [calls EXCEPT ![k].pc = "isProductAvailable",
                                      ![k].product = r.product,
                                      ![k].fetches = 2]
            /\ UNCHANGED last
       ELSE /\ calls' = RemoveAt(calls, k)
            /\ last' = AddRejected([calls[k] EXCEPT !.fetches = 2], r.message)
    /\ UNCHANGED <<heap, items, nAdds, held, catalog>>

\* The fetch of getProduct (line 36) settles.  On failure getProduct throws and
\* addProduct rejects; on success addProduct goes on to isProductAvailable,
\* which issues the second fetch, and suspends again.
AddProductFetched(k, resp) ==
    /\ k \in 1..Len(calls)
    /\ calls[k].op = "addProduct"
    /\ calls[k].pc = "getProduct"
    /\ resp \in AxiosGet(calls[k].productId)
    /\ LET r == getProduct(resp) IN
       IF r.ok
       THEN /\ calls' = [calls EXCEPT ![k].pc = "isProductAvailable",
                                      ![k].product = r.product,
                                      ![k].fetches = 2]
            /\ UNCHANGED last
       ELSE /\ calls' = RemoveAt(calls, k)
            /\ last' = AddRejected(calls[k], r.message)
    /\ UNCHANGED <<heap, items, nAdds, held, catalog>>

\* The line addProduct pushes for a product that has no line yet.
NewItem(productId, product, quantity) ==
    [productId |-> productId,
     title |-> product.title,
     price |-> product.price,
     priceWithTax |-> product.priceWithTax,
     quantity |-> quantity,
     subtotal |-> quantity * product.priceWithTax,
     isExpensive |-> product.isExpensive]

\* The increment that also copies the product just fetched into the line.
UpdatedItemRefreshed(item, product, quantity) ==
    [item EXCEPT !.quantity = item.quantity + quantity,
                 !.subtotal = (item.quantity + quantity) * product.priceWithTax,
                 !.title = product.title,
                 !.price = product.price,
                 !.priceWithTax = product.priceWithTax,
                 !.isExpensive = product.isExpensive]

\* The increment written with -= for +=.
UpdatedItemDecrements(item, product, quantity) ==
    [item EXCEPT !.quantity = item.quantity - quantity,
                 !.subtotal = (item.quantity - quantity) * product.priceWithTax]

\* The increment written as an assignment: quantity = quantity.
UpdatedItemOverwrites(item, product, quantity) ==
    [item EXCEPT !.quantity = quantity,
                 !.subtotal = quantity * product.priceWithTax]

\* The line after addProduct's increment: quantity += quantity, subtotal =
\* the new quantity times the priceWithTax of the product just fetched.
UpdatedItem(item, product, quantity) ==
    [item EXCEPT !.quantity = item.quantity + quantity,
                 !.subtotal = (item.quantity + quantity) * product.priceWithTax]

\* addProduct that looks at isAvailable only after it has changed the cart.
AddProductCheckedLate(k, resp, random) ==
    /\ k \in 1..Len(calls)
    /\ calls[k].op = "addProduct"
    /\ calls[k].pc = "isProductAvailable"
    /\ resp \in AxiosGet(calls[k].productId)
    /\ LET call == calls[k]
           c == call.cart
           isAvailable == isProductAvailable(resp, random)
           existing == FindItem(items[c], call.productId)
           ref == IF existing # 0 THEN items[c][existing] ELSE Len(heap) + 1
       IN  /\ calls' = RemoveAt(calls, k)
           /\ IF existing # 0
              THEN /\ heap' = [heap EXCEPT ![ref] =
                                 UpdatedItem(heap[ref], call.product, call.quantity)]
                   /\ UNCHANGED items
              ELSE /\ heap' = Append(heap, NewItem(call.productId, call.product,
                                                   call.quantity))
                   /\ items' = [items EXCEPT ![c] = Append(items[c], ref)]
           /\ last' = IF isAvailable THEN AddFulfilled(call, ref)
                      ELSE AddRejected(call, <<"Producto ", call.product.title,
                                               " no disponible en stock">>)
    /\ UNCHANGED <<nAdds, held, catalog>>

\* addProduct whose find ran before its awaits: a call started while another
\* call for the product was in flight acts on what it found then, no line.
AddProductCheckedStale(k, resp, random) ==
    /\ k \in 1..Len(calls)
    /\ calls[k].op = "addProduct"
    /\ calls[k].pc = "isProductAvailable"
    /\ resp \in AxiosGet(calls[k].productId)
    /\ LET call == calls[k]
           c == call.cart
           isAvailable == isProductAvailable(resp, random)
           existing == IF call.overlaps THEN 0
                       ELSE FindItem(items[c], call.productId)
       IN  /\ calls' = RemoveAt(calls, k)
           /\ IF ~isAvailable
              THEN /\ last' = AddRejected(call,
                                <<"Producto ", call.product.title,
                                  " no disponible en stock">>)
                   /\ UNCHANGED <<heap, items>>
              ELSE IF existing # 0
              THEN LET ref == items[c][existing] IN
                   /\ heap' = [heap EXCEPT ![ref] =
                                 UpdatedItem(heap[ref], call.product, call.quantity)]
                   /\ UNCHANGED items
                   /\ last' = AddFulfilled(call, ref)
              ELSE LET ref == Len(heap) + 1 IN
                   /\ heap' = Append(heap, NewItem(call.productId, call.product,
                                                   call.quantity))
                   /\ items' = [items EXCEPT ![c] = Append(items[c], ref)]
                   /\ last' = AddFulfilled(call, ref)
    /\ UNCHANGED <<nAdds, held, catalog>>

\* addProduct that rejects a quantity below 1.
AddProductCheckedValidates(k, resp, random) ==
    /\ k \in 1..Len(calls)
    /\ calls[k].op = "addProduct"
    /\ calls[k].pc = "isProductAvailable"
    /\ resp \in AxiosGet(calls[k].productId)
    /\ LET call == calls[k]
           c == call.cart
           isAvailable == isProductAvailable(resp, random)
           existing == FindItem(items[c], call.productId)
       IN  /\ calls' = RemoveAt(calls, k)
           /\ IF call.quantity < 1
              THEN /\ last' = AddRejected(call, <<"Cantidad no valida">>)
                   /\ UNCHANGED <<heap, items>>
              ELSE IF ~isAvailable
              THEN /\ last' = AddRejected(call,
                                <<"Producto ", call.product.title,
                                  " no disponible en stock">>)
                   /\ UNCHANGED <<heap, items>>
              ELSE IF existing # 0
              THEN LET ref == items[c][existing] IN
                   /\ heap' = [heap EXCEPT ![ref] =
                                 UpdatedItem(heap[ref], call.product, call.quantity)]
                   /\ UNCHANGED items
                   /\ last' = AddFulfilled(call, ref)
              ELSE LET ref == Len(heap) + 1 IN
                   /\ heap' = Append(heap, NewItem(call.productId, call.product,
                                                   call.quantity))
                   /\ items' = [items EXCEPT ![c] = Append(items[c], ref)]
                   /\ last' = AddFulfilled(call, ref)
    /\ UNCHANGED <<nAdds, held, catalog>>

\* addProduct on an items array that every CartService shares (an array of
\* the prototype, not of the instance): the array of the first instance.
AddProductCheckedShared(k, resp, random) ==
    /\ k \in 1..Len(calls)
    /\ calls[k].op = "addProduct"
    /\ calls[k].pc = "isProductAvailable"
    /\ resp \in AxiosGet(calls[k].productId)
    /\ LET call == calls[k]
           c == 1
           isAvailable == isProductAvailable(resp, random)
           existing == FindItem(items[c], call.productId)
       IN  /\ calls' = RemoveAt(calls, k)
           /\ IF ~isAvailable
              THEN /\ last' = AddRejected(call,
                                <<"Producto ", call.product.title,
                                  " no disponible en stock">>)
                   /\ UNCHANGED <<heap, items>>
              ELSE IF existing # 0
              THEN LET ref == items[c][existing] IN
                   /\ heap' = [heap EXCEPT ![ref] =
                                 UpdatedItem(heap[ref], call.product, call.quantity)]
                   /\ UNCHANGED items
                   /\ last' = AddFulfilled(call, ref)
              ELSE LET ref == Len(heap) + 1 IN
                   /\ heap' = Append(heap, NewItem(call.productId, call.product,
                                                   call.quantity))
                   /\ items' = [items EXCEPT ![c] = Append(items[c], ref)]
                   /\ last' = AddFulfilled(call, ref)
    /\ UNCHANGED <<nAdds, held, catalog>>

\* addProduct whose availability check lets the error of its fetch through:
\* the call rejects with the lookup failure and its cause.
AddProductCheckedPropagates(k, resp, random) ==
    /\ k \in 1..Len(calls)
    /\ calls[k].op = "addProduct"
    /\ calls[k].pc = "isProductAvailable"
    /\ resp \in AxiosGet(calls[k].productId)
    /\ LET call == calls[k]
           c == call.cart
           isAvailable == isProductAvailable(resp, random)
           existing == FindItem(items[c], call.productId)
       IN  /\ calls' = RemoveAt(calls, k)
           /\ IF ~resp.ok
              THEN /\ last' = AddRejected(call, getProduct(resp).message)
                   /\ UNCHANGED <<heap, items>>
              ELSE IF ~isAvailable
              THEN /\ last' = AddRejected(call,
                                <<"Producto ", call.product.title,
                                  " no disponible en stock">>)
                   /\ UNCHANGED <<heap, items>>
              ELSE IF existing # 0
              THEN LET ref == items[c][existing] IN
                   /\ heap' = [heap EXCEPT ![ref] =
                                 UpdatedItem(heap[ref], call.product, call.quantity)]
                   /\ UNCHANGED items
                   /\ last' = AddFulfilled(call, ref)
              ELSE LET ref == Len(heap) + 1 IN
                   /\ heap' = Append(heap, NewItem(call.productId, call.product,
                                                   call.quantity))
                   /\ items' = [items EXCEPT ![c] = Append(items[c], ref)]
                   /\ last' = AddFulfilled(call, ref)
    /\ UNCHANGED <<nAdds, held, catalog>>

\* The fetch of isProductAvailable (line 39) settles; the rest of addProduct
\* runs without suspending: reject when not available, else find the line of
\* productId and increment it, or push a new line.
AddProductChecked(k, resp, random) ==
    /\ k \in 1..Len(calls)
    /\ calls[k].op = "addProduct"
    /\ calls[k].pc = "isProductAvailable"
    /\ resp \in AxiosGet(calls[k].productId)
    /\ LET call == calls[k]
           c == call.cart
           isAvailable == isProductAvailable(resp, random)
           existing == FindItem(items[c], call.productId)
       IN  /\ calls' = RemoveAt(calls, k)
           /\ IF ~isAvailable
              THEN /\ last' = AddRejected(call,
                                <<"Producto ", call.product.title,
                                  " no disponible en stock">>)
                   /\ UNCHANGED <<heap, items>>
              ELSE IF existing # 0
              THEN LET ref == items[c][existing] IN
                   /\ heap' = [heap EXCEPT ![ref] =
                                 UpdatedItem(heap[ref], call.product, call.quantity)]
                   /\ UNCHANGED items
                   /\ last' = AddFulfilled(call, ref)
              ELSE LET ref == Len(heap) + 1 IN
                   /\ heap' = Append(heap, NewItem(call.productId, call.product,
                                                   call.quantity))
                   /\ items' = [items EXCEPT ![c] = Append(items[c], ref)]
                   /\ last' = AddFulfilled(call, ref)
    /\ UNCHANGED <<nAdds, held, catalog>>

\* Math.round(x * 100) / 100 for x = n/unit cents, in cents: the nearest cent;
\* at exactly half a cent, up or down as `up` says.
Round2(n, unit, up) ==
    LET lo == n \div unit
        rest == n - lo * unit
    IN  IF 2 * rest > unit THEN lo + 1
        ELSE IF 2 * rest < unit THEN lo
        ELSE IF up THEN lo + 1 ELSE lo

\* total computed from the discount already rounded to cents.
Round2DiffOfRounded(s, d, up) ==
    Round2(s - 100 * Round2(d, 2000, up), 100, up)

\* Round2 of the difference s - d/20 of two amounts in 1/100 cent, d given in
\* twentieths: (20 * s - d) / 2000 cents.  TLC integers have 32 bits, so the
\* whole cents of s and d are split off before the multiplication.
Round2Diff(s, d, up) ==
    20 * (s \div 2000) - (d \div 2000)
      + Round2(20 * (s % 2000) - (d % 2000), 2000, up)

\* The discount decided on the subtotal rounded to cents.
DiscountOnRounded(subtotal, cmp) ==
    IF Round2(subtotal, 100, cmp) > 500 * 100 THEN subtotal ELSE 0

\* The discount of line 90, subtotal > 500 ? subtotal * 0.05 : 0, for a
\* subtotal in 1/100 cent; the result is in twentieths of that unit, where
\* subtotal * 0.05 is the integer `subtotal`.  At exactly 500 the rounding
\* error of the double sum decides, either way (cmp).
Discount(subtotal, cmp) ==
    IF subtotal > 500 * 10000 \/ (subtotal = 500 * 10000 /\ cmp)
    THEN subtotal ELSE 0

\* getCartSummary().  Without a discount, total is the same number as
\* subtotal and rounds the same way.
getCartSummary(c, tie) ==
    LET lines == CartLines(c)
        totalItems == SumOver([i \in 1..Len(lines) |-> lines[i].quantity],
                              [i \in 1..Len(lines) |-> i])
        subtotal == SumOver([i \in 1..Len(lines) |-> lines[i].subtotal],
                            [i \in 1..Len(lines) |-> i])
        discount == Discount(subtotal, tie["cmp"])
    IN  [op |-> "getCartSummary", cart |-> c,
         items |-> items[c],
         totalItems |-> totalItems,
         subtotal |-> Round2(subtotal, 100, tie["subtotal"]),
         discount |-> Round2(discount, 2000, tie["discount"]),
         total |-> Round2Diff(subtotal, discount,
                              IF discount = 0 THEN tie["subtotal"]
                              ELSE tie["total"]),
         hasDiscount |-> discount > 0]

\* The outcomes at the ties open to a call of getCartSummary.  The same
\* doubles round the same way again: right after a summary of the cart (a
\* change of a line or of the array completes an operation in between) only
\* the outcomes of that summary are left.
Roundings(c) ==
    IF last.op = "getCartSummary" /\ last.cart = c
    THEN {tie \in Ties : getCartSummary(c, tie) = last}
    ELSE Ties

\* getCartSummary() taking the outcome at a tie anew at every call.
GetCartSummaryRerolls(c) ==
    /\ last' \in {getCartSummary(c, tie) : tie \in Ties}
    /\ UNCHANGED <<heap, items, calls, nAdds, held, catalog>>

\* A call of getCartSummary(): it returns without suspending and writes
\* nothing.
GetCartSummary(c) ==
    /\ last' \in {getCartSummary(c, tie) : tie \in Roundings(c)}
    /\ UNCHANGED <<heap, items, calls, nAdds, held, catalog>>

\* validateCart reporting every result as available.
ValidateResultUnfiltered(c, results, fetches) ==
    LET unavailableItems == SelectSeq(results, LAMBDA r : ~r.isAvailable)
    IN  [op |-> "validateCart", cart |-> c,
         isValid |-> Len(unavailableItems) = 0,
         availableItems |-> results,
         unavailableItems |-> unavailableItems,
         totalItems |-> Len(results),
         fetches |-> fetches]

\* What validateCart returns for the validation results gathered.
ValidateResult(c, results, fetches) ==
    LET unavailableItems == SelectSeq(results, LAMBDA r : ~r.isAvailable)
    IN  [op |-> "validateCart", cart |-> c,
         isValid |-> Len(unavailableItems) = 0,
         availableItems |-> SelectSeq(results, LAMBDA r : r.isAvailable),
         unavailableItems |-> unavailableItems,
         totalItems |-> Len(results),
         fetches |-> fetches]

\* validateCart() up to its first await.  `for (const item of this.items)`
\* iterates the array object this.items names at this moment; with an empty
\* array the call returns without suspending, otherwise isProductAvailable of
\* the first line issues its fetch.
ValidateCartCall(c, maxInFlight) ==
    IF items[c] = <<>>
    THEN /\ last' = ValidateResult(c, <<>>, 0)
         /\ UNCHANGED <<heap, items, calls, nAdds, held, catalog>>
    ELSE /\ Len(calls) < maxInFlight
         /\ calls' = Append(calls,
                [Call("validateCart", c, heap[items[c][1]].productId, 0)
                   EXCEPT !.pc = "isProductAvailable", !.idx = 1,
                          !.item = items[c][1]])
         /\ UNCHANGED <<heap, items, nAdds, held, last, catalog>>

\* validateCart that fetches for its first line only and answers for the
\* other lines without a fetch.
ValidateCheckedOneFetch(k, resp, random) ==
    /\ k \in 1..Len(calls)
    /\ calls[k].op = "validateCart"
    /\ resp \in AxiosGet(calls[k].productId)
    /\ LET call == calls[k]
           item == heap[call.item]
           results == Append(call.results,
                         [productId |-> item.productId, title |-> item.title,
                          quantity |-> item.quantity,
                          isAvailable |-> isProductAvailable(resp, random)])
           arr == IF call.live THEN items[call.cart] ELSE call.arr
       IN  IF call.idx < Len(arr)
           THEN /\ calls' = [calls EXCEPT ![k].idx = call.idx + 1,
                                          ![k].item = arr[call.idx + 1],
                                          ![k].productId =
                                              heap[arr[call.idx + 1]].productId,
                                          ![k].results = results]
                /\ UNCHANGED last
           ELSE /\ calls' = RemoveAt(calls, k)
                /\ last' = ValidateResult(call.cart, results, call.fetches)
    /\ UNCHANGED <<heap, items, nAdds, held, catalog>>

\* validateCart that gives up at the first line whose fetch fails: it
\* returns what it has gathered, that line included.
ValidateCheckedGivesUp(k, resp, random) ==
    /\ k \in 1..Len(calls)
    /\ calls[k].op = "validateCart"
    /\ resp \in AxiosGet(calls[k].productId)
    /\ LET call == calls[k]
           item == heap[call.item]
           results == Append(call.results,
                         [productId |-> item.productId, title |-> item.title,
                          quantity |-> item.quantity,
                          isAvailable |-> isProductAvailable(resp, random)])
           arr == IF call.live THEN items[call.cart] ELSE call.arr
       IN  IF call.idx < Len(arr) /\ resp.ok
           THEN /\ calls' = [calls EXCEPT ![k].idx = call.idx + 1,
                                          ![k].item = arr[call.idx + 1],
                                          ![k].productId =
                                              heap[arr[call.idx + 1]].productId,
                                          ![k].results = results,
                                          ![k].fetches = call.fetches + 1]
                /\ UNCHANGED last
           ELSE /\ calls' = RemoveAt(calls, k)
                /\ last' = ValidateResult(call.cart, results, call.fetches)
    /\ UNCHANGED <<heap, items, nAdds, held, catalog>>

\* validateCart that decides on what the line says of the product, as copied
\* when the line was made, instead of looking the product up again.
ValidateCheckedFromLine(k, resp, random) ==
    /\ k \in 1..Len(calls)
    /\ calls[k].op = "validateCart"
    /\ resp \in AxiosGet(calls[k].productId)
    /\ LET call == calls[k]
           item == heap[call.item]
           results == Append(call.results,
                         [productId |-> item.productId, title |-> item.title,
                          quantity |-> item.quantity,
                          isAvailable |-> (~item.isExpensive) \/ random > 3])
           arr == IF call.live THEN items[call.cart] ELSE call.arr
       IN  IF call.idx < Len(arr)
           THEN /\ calls' = [calls EXCEPT ![k].idx = call.idx + 1,
                                          ![k].item = arr[call.idx + 1],
                                          ![k].productId =
                                              heap[arr[call.idx + 1]].productId,
                                          ![k].results = results,
                                          ![k].fetches = call.fetches + 1]
                /\ UNCHANGED last
           ELSE /\ calls' = RemoveAt(calls, k)
                /\ last' = ValidateResult(call.cart, results, call.fetches)
    /\ UNCHANGED <<heap, items, nAdds, held, catalog>>

\* validateCart that takes a line it finds unavailable out of the cart.
ValidateCheckedPrunes(k, resp, random) ==
    /\ k \in 1..Len(calls)
    /\ calls[k].op = "validateCart"
    /\ resp \in AxiosGet(calls[k].productId)
    /\ LET call == calls[k]
           item == heap[call.item]
           isAvailable == isProductAvailable(resp, random)
           results == Append(call.results,
                         [productId |-> item.productId, title |-> item.title,
                          quantity |-> item.quantity,
                          isAvailable |-> isAvailable])
           arr == IF call.live THEN items[call.cart] ELSE call.arr
       IN  /\ items' = [items EXCEPT ![call.cart] =
                          SelectSeq(items[call.cart],
                                    LAMBDA r : isAvailable \/ r # call.item)]
           /\ IF call.idx < Len(arr)
              THEN /\ calls' = [calls EXCEPT ![k].idx = call.idx + 1,
                                             ![k].item = arr[call.idx + 1],
                                             ![k].productId =
                                                 heap[arr[call.idx + 1]].productId,
                                             ![k].results = results,
                                             ![k].fetches = call.fetches + 1]
                   /\ UNCHANGED last
              ELSE /\ calls' = RemoveAt(calls, k)
                   /\ last' = ValidateResult(call.cart, results, call.fetches)
    /\ UNCHANGED <<heap, nAdds, held, catalog>>

\* The fetch of isProductAvailable (line 119) settles: the result of the line
\* is pushed (its quantity as it is now), and the iterator moves on in the
\* array it iterates, as long as that array is now: to the next line and its
\* fetch, or past the end, where validateCart returns.
ValidateChecked(k, resp, random) ==
    /\ k \in 1..Len(calls)
    /\ calls[k].op = "validateCart"
    /\ resp \in AxiosGet(calls[k].productId)
    /\ LET call == calls[k]
           item == heap[call.item]
           results == Append(call.results,
                         [productId |-> item.productId, title |-> item.title,
                          quantity |-> item.quantity,
                          isAvailable |-> isProductAvailable(resp, random)])
           arr == IF call.live THEN items[call.cart] ELSE call.arr
       IN  IF call.idx < Len(arr)
           THEN /\ calls' = [calls EXCEPT ![k].idx = call.idx + 1,
                                          ![k].item = arr[call.idx + 1],
                                          ![k].productId =
                                              heap[arr[call.idx + 1]].productId,
                                          ![k].results = results,
                                          ![k].fetches = call.fetches + 1]
                /\ UNCHANGED last
           ELSE /\ calls' = RemoveAt(calls, k)
                /\ last' = ValidateResult(call.cart, results, call.fetches)
    /\ UNCHANGED <<heap, items, nAdds, held, catalog>>

\* clearCart that also drops the addProduct calls of the cart in flight.
ClearCartCancels(c) ==
    /\ items' = [items EXCEPT ![c] = <<>>]
    /\ calls' = SelectSeq(calls, LAMBDA call :
                             ~(call.op = "addProduct" /\ call.cart = c))
    /\ last' = [op |-> "clearCart", cart |-> c]
    /\ UNCHANGED <<heap, nAdds, held, catalog>>

\* clearCart(): this.items = [].  The cart gets a new, empty array; a
\* validateCart in flight keeps iterating the array it started on, which
\* nothing changes any more.
ClearCart(c) ==
    /\ items' = [items EXCEPT ![c] = <<>>]
    /\ calls' = [k \in 1..Len(calls) |->
                   IF calls[k].op = "validateCart" /\ calls[k].cart = c
                      /\ calls[k].live
                   THEN [calls[k] EXCEPT !.live = FALSE, !.arr = items[c]]
                   ELSE calls[k]]
    /\ last' = [op |-> "clearCart", cart |-> c]
    /\ UNCHANGED <<heap, nAdds, held, catalog>>

\* getItems(): [...this.items], a new array holding the same line objects.
getItems(c) == [i \in 1..Len(items[c]) |-> items[c][i]]

GetItems(c) ==
    /\ held' = getItems(c)
    /\ last' = [op |-> "getItems", cart |-> c, items |-> getItems(c)]
    /\ UNCHANGED <<heap, items, calls, nAdds, catalog>>

(***************************************************************************)
(* The caller changes what getItems() returned: the returned array         *)
(* (push, pop) or a line it holds (quantity, subtotal).                    *)
(***************************************************************************)
ReturnedPush ==
    /\ held # <<>>
    /\ Len(held) <= Len(heap)
    /\ held' = Append(held, held[1])
    /\ last' = [op |-> "returned.push"]
    /\ UNCHANGED <<heap, items, calls, nAdds, catalog>>

ReturnedPop ==
    /\ held # <<>>
    /\ held' = SubSeq(held, 1, Len(held) - 1)
    /\ last' = [op |-> "returned.pop"]
    /\ UNCHANGED <<heap, items, calls, nAdds, catalog>>

ReturnedSetQuantity(i, quantity) ==
    /\ i \in 1..Len(held)
    /\ heap' = [heap EXCEPT ![held[i]].quantity = quantity]
    /\ last' = [op |-> "returned[i].quantity ="]
    /\ UNCHANGED <<items, calls, nAdds, held, catalog>>

ReturnedSetSubtotal(i, subtotal) ==
    /\ i \in 1..Len(held)
    /\ heap' = [heap EXCEPT ![held[i]].subtotal = subtotal]
    /\ last' = [op |-> "returned[i].subtotal ="]
    /\ UNCHANGED <<items, calls, nAdds, held, catalog>>

CallerMutation ==
    \/ ReturnedPush
    \/ ReturnedPop
    \/ \E i \in 1..Len(held) : ReturnedSetQuantity(i, WrittenQuantity)
    \/ \E i \in 1..Len(held) : ReturnedSetSubtotal(i, 0)

Init ==
    /\ heap = <<>>
    /\ items = [c \in Carts |-> <<>>]
    /\ calls = <<>>
    /\ nAdds = 0
    /\ held = <<>>
    /\ last = [op |-> "new"]
    /\ catalog = MainCatalog

\* An addProduct in flight takes its next step.
SettleAdd ==
    \/ \E k \in 1..Len(calls) :
          \E resp \in AxiosGet(calls[k].productId) : AddProductFetched(k, resp)
    \/ \E k \in 1..Len(calls), random \in Draws :
          \E resp \in AxiosGet(calls[k].productId) :
             AddProductChecked(k, resp, random)

\* A validateCart in flight takes its next step.
SettleValidate ==
    \E k \in 1..Len(calls), random \in Draws :
       \E resp \in AxiosGet(calls[k].productId) :
          ValidateChecked(k, resp, random)

\* One caller, one call at a time: every operation of the cart, in any order.
Next ==
    \/ \E c \in Carts, id \in MainIds, q \in Quantities :
          AddProductCall(c, id, q, MaxAdds, 1)
    \/ SettleAdd
    \/ SettleValidate
    \/ \E c \in Carts : GetCartSummary(c)
    \/ \E c \in Carts : ValidateCartCall(c, 1)
    \/ \E c \in Carts : ClearCart(c)
    \/ \E c \in Carts : GetItems(c)

Spec == Init /\ [][Next]_vars

\* Calls that overlap: addProduct and validateCart calls are started while
\* others are suspended, and clearCart runs in between.
NextRace ==
    \/ \E c \in Carts, id \in MainIds, q \in Quantities :
          AddProductCall(c, id, q, MaxRaceAdds, MaxInFlight)
    \/ SettleAdd
    \/ SettleValidate
    \/ \E c \in Carts : ValidateCartCall(c, MaxInFlight)
    \/ \E c \in Carts : ClearCart(c)

InitRace ==
    /\ heap = <<>>
    /\ items = [c \in Carts |-> <<>>]
    /\ calls = <<>>
    /\ nAdds = 0
    /\ held = <<>>
    /\ last = [op |-> "new"]
    /\ catalog = Fixed(15000, 8000, 20000)

SpecRace == InitRace /\ [][NextRace]_vars

\* addProduct calls that overlap, and clearCart in between.
NextOverlap ==
    \/ \E c \in Carts, id \in MainIds, q \in Quantities :
          AddProductCall(c, id, q, MaxRaceAdds, MaxInFlight)
    \/ SettleAdd
    \/ \E c \in Carts : ClearCart(c)

SpecOverlap == InitRace /\ [][NextOverlap]_vars

\* One caller, one call at a time, who also writes to what getItems returned.
NextCaller ==
    \/ \E c \in Carts, id \in MainIds, q \in Quantities :
          AddProductCall(c, id, q, MaxCallerAdds, 1)
    \/ SettleAdd
    \/ \E c \in Carts : GetCartSummary(c)
    \/ \E c \in Carts : GetItems(c)
    \/ CallerMutation

SpecCaller == Init /\ [][NextCaller]_vars

\* One caller, one call at a time, against a catalogue of fixed prices.
InitPricing ==
    /\ heap = <<>>
    /\ items = [c \in Carts |-> <<>>]
    /\ calls = <<>>
    /\ nAdds = 0
    /\ held = <<>>
    /\ last = [op |-> "new"]
    /\ catalog \in PricingCatalogs

NextPricing ==
    \/ \E c \in Carts, id \in ProductIds, q \in Quantities :
          AddProductCall(c, id, q, MaxPricingAdds, 1)
    \/ SettleAdd
    \/ \E c \in Carts : GetCartSummary(c)

SpecPricing == InitPricing /\ [][NextPricing]_vars

\* One caller who adds products at prices whose subtotals end in half a cent
\* and asks for the summary again and again.
MaxSummaryAdds == 2   \* addProduct calls per run of SpecSummary

InitSummary ==
    /\ heap = <<>>
    /\ items = [c \in Carts |-> <<>>]
    /\ calls = <<>>
    /\ nAdds = 0
    /\ held = <<>>
    /\ last = [op |-> "new"]
    /\ catalog = Fixed(24365, 9991, 10001)

NextSummary ==
    \/ \E c \in Carts, id \in ProductIds, q \in Quantities :
          AddProductCall(c, id, q, MaxSummaryAdds, 1)
    \/ SettleAdd
    \/ \E c \in Carts : GetCartSummary(c)
    \/ \E c \in Carts : ClearCart(c)

SpecSummary == InitSummary /\ [][NextSummary]_vars

(***************************************************************************)
(* ProductService called directly: getProduct, isProductAvailable and      *)
(* getProductsByCategory, each one fetch and what it makes of the answer.  *)
(***************************************************************************)
MaxUpstream == 2        \* items in an answer of the category endpoint
UpstreamPrices == {8000, 10000, 15000}

RECURSIVE SeqsUpTo(_, _)
SeqsUpTo(S, n) ==
    IF n = 0 THEN {<<>>}
    ELSE SeqsUpTo(S, n - 1) \cup
         {Append(s, x) : s \in {t \in SeqsUpTo(S, n - 1) : Len(t) = n - 1},
                         x \in S}

\* axios.get(`${apiUrl}/products/category/${category}`): a list of product
\* data, or an error.
AxiosGetCategory ==
    { [ok |-> TRUE, data |-> d, message |-> <<>>] :
        d \in SeqsUpTo({[id |-> id, title |-> Title(id), price |-> p] :
                           id \in ProductIds, p \in UpstreamPrices}, MaxUpstream) }
    \cup
    { [ok |-> FALSE, data |-> <<>>, message |-> <<m>>] : m \in Causes }

\* getProductsByCategory mapping only the first item of the answer.
getProductsByCategoryFirstOnly(resp) ==
    IF resp.ok
    THEN [ok |-> TRUE,
          products |-> [i \in 1..(IF Len(resp.data) > 0 THEN 1 ELSE 0) |->
                          getProduct([ok |-> TRUE, data |-> resp.data[i],
                                      message |-> <<>>]).product],
          message |-> <<>>]
    ELSE [ok |-> FALSE, products |-> <<>>,
          message |-> <<"No se pudieron obtener productos de la categoria: ">>
                        \o resp.message]

\* getProductsByCategory(category), given the settled axios.get:
\* response.data.map(...) with isExpensive and priceWithTax per item, or the
\* error `No se pudieron obtener productos de la categoría: ${error.message}`.
getProductsByCategory(resp) ==
    IF resp.ok
    THEN [ok |-> TRUE,
          products |-> [i \in 1..Len(resp.data) |->
                          [id |-> resp.data[i].id,
                           title |-> resp.data[i].title,
                           price |-> resp.data[i].price,
                           isExpensive |-> resp.data[i].price > 100 * 100,
                           priceWithTax |-> calculateTax(resp.data[i].price)]],
          message |-> <<>>]
    ELSE [ok |-> FALSE, products |-> <<>>,
          message |-> <<"No se pudieron obtener productos de la categoria: ">>
                        \o resp.message]

\* A call of a ProductService method up to its await: the fetch is issued.
ProductServiceCall(op, productId) ==
    /\ calls = <<>>
    /\ calls' = <<Call(op, 0, productId, 0)>>
    /\ UNCHANGED <<heap, items, nAdds, held, last, catalog>>

\* getProduct on one failed fetch fetching once more before it gives up.
GetProductSettledRetries(k, resp) ==
    /\ k \in 1..Len(calls)
    /\ calls[k].op = "getProduct"
    /\ resp \in AxiosGet(calls[k].productId)
    /\ IF ~resp.ok /\ calls[k].fetches = 1
       THEN /\ calls' = [calls EXCEPT ![k].fetches = 2]
            /\ UNCHANGED last
       ELSE /\ calls' = RemoveAt(calls, k)
            /\ last' = [op |-> "getProduct", productId |-> calls[k].productId,
                        fetches |-> calls[k].fetches, fetchOk |-> resp.ok,
                        cause |-> resp.message, result |-> getProduct(resp)]
    /\ UNCHANGED <<heap, items, nAdds, held, catalog>>

\* getProduct: its fetch settles and the call settles with it.
GetProductSettled(k, resp) ==
    /\ k \in 1..Len(calls)
    /\ calls[k].op = "getProduct"
    /\ resp \in AxiosGet(calls[k].productId)
    /\ calls' = RemoveAt(calls, k)
    /\ last' = [op |-> "getProduct", productId |-> calls[k].productId,
                fetches |-> calls[k].fetches, fetchOk |-> resp.ok,
                cause |-> resp.message, result |-> getProduct(resp)]
    /\ UNCHANGED <<heap, items, nAdds, held, catalog>>

\* isProductAvailable: the fetch of its getProduct settles; the call fulfils
\* with a boolean, the catch turning a failed lookup into false.
IsProductAvailableSettled(k, resp, random) ==
    /\ k \in 1..Len(calls)
    /\ calls[k].op = "isProductAvailable"
    /\ resp \in AxiosGet(calls[k].productId)
    /\ calls' = RemoveAt(calls, k)
    /\ last' = [op |-> "isProductAvailable", productId |-> calls[k].productId,
                fetches |-> calls[k].fetches, fetchOk |-> resp.ok,
                price |-> resp.data.price, random |-> random,
                result |-> isProductAvailable(resp, random)]
    /\ UNCHANGED <<heap, items, nAdds, held, catalog>>

\* getProductsByCategory: its fetch settles and the call settles with it.
GetProductsByCategorySettled(k, resp) ==
    /\ k \in 1..Len(calls)
    /\ calls[k].op = "getProductsByCategory"
    /\ resp \in AxiosGetCategory
    /\ calls' = RemoveAt(calls, k)
    /\ last' = [op |-> "getProductsByCategory", fetches |-> calls[k].fetches,
                fetchOk |-> resp.ok, upstream |-> resp.data,
                cause |-> resp.message, result |-> getProductsByCategory(resp)]
    /\ UNCHANGED <<heap, items, nAdds, held, catalog>>

InitCatalog ==
    /\ heap = <<>>
    /\ items = [c \in Carts |-> <<>>]
    /\ calls = <<>>
    /\ nAdds = 0
    /\ held = <<>>
    /\ last = [op |-> "new"]
    /\ catalog \in {MainCatalog, Fixed(200000, 8000, 15000)}

NextCatalog ==
    \/ \E id \in ProductIds : ProductServiceCall("getProduct", id)
    \/ \E id \in ProductIds : ProductServiceCall("isProductAvailable", id)
    \/ ProductServiceCall("getProductsByCategory", 0)
    \/ \E k \in {j \in 1..Len(calls) : calls[j].op = "getProduct"} :
          \E resp \in AxiosGet(calls[k].productId) : GetProductSettled(k, resp)
    \/ \E k \in {j \in 1..Len(calls) : calls[j].op = "isProductAvailable"} :
          \E random \in Draws, resp \in AxiosGet(calls[k].productId) :
             IsProductAvailableSettled(k, resp, random)
    \/ \E k \in 1..Len(calls) :
          \E resp \in AxiosGetCategory : GetProductsByCategorySettled(k, resp)

SpecCatalog == InitCatalog /\ [][NextCatalog]_vars
(***************************************************************************)
(* A purchase: one caller adds up to three products, the prices of         *)
(* bigbang-claro.test.js with product 2 changing price across the tax      *)
(* threshold, and validates the cart.                                      *)
(***************************************************************************)
MaxFlowAdds == 3      \* addProduct calls per run of SpecFlow

FlowCatalog == (1 :> {200000}) @@ (2 :> {8000, 15000}) @@ (3 :> {15000})

\* The quantities of the purchase: addProduct(1, 1), (2, 2), (3, 1).
FlowQuantity(id) == IF id = 2 THEN 2 ELSE 1

InitFlow ==
    /\ heap = <<>>
    /\ items = [c \in Carts |-> <<>>]
    /\ calls = <<>>
    /\ nAdds = 0
    /\ held = <<>>
    /\ last = [op |-> "new"]
    /\ catalog = FlowCatalog

NextFlow ==
    \/ \E c \in Carts, id \in ProductIds :
          AddProductCall(c, id, FlowQuantity(id), MaxFlowAdds, 1)
    \/ SettleAdd
    \/ \E c \in Carts : ValidateCartCall(c, 1)
    \/ SettleValidate

SpecFlow == InitFlow /\ [][NextFlow]_vars

\* The same purchase against a catalogue of fixed prices, 150, 80 and 200:
\* product 2 is never expensive.
SpecValidate == InitRace /\ [][NextFlow]_vars

(***************************************************************************)
(* Several users buy at the same time: every pass of the loop makes a new  *)
(* CartService and calls its addProduct for product 1, of price 50, with a *)
(* quantity of its own; the calls are in flight together and settle in any *)
(* order.  A user may clear a cart that holds a line.                       *)
(***************************************************************************)
MaxUsers == 3         \* CartService instances per run of SpecUsers

Users == 1..MaxUsers

UsersCatalog == Fixed(5000, 8000, 15000)

InitUsers ==
    /\ heap = <<>>
    /\ items = [c \in Users |-> <<>>]
    /\ calls = <<>>
    /\ nAdds = 0
    /\ held = <<>>
    /\ last = [op |-> "new"]
    /\ catalog = UsersCatalog

NextUsers ==
    \/ \E q \in Quantities : AddProductCall(nAdds + 1, 1, q, MaxUsers, MaxUsers)
    \/ SettleAdd
    \/ \E c \in Users : items[c] # <<>> /\ ClearCart(c)

SpecUsers == InitUsers /\ [][NextUsers]_vars

(***************************************************************************)
(* A caller who passes any number as quantity: negative, zero or positive. *)
(***************************************************************************)
MaxQuantityAdds == 2  \* addProduct calls per run of SpecQuantity

AnyQuantities == {-1, 0, 1}

NextQuantity ==
    \/ \E c \in Carts, id \in MainIds, q \in AnyQuantities :
          AddProductCall(c, id, q, MaxQuantityAdds, 1)
    \/ SettleAdd

SpecQuantity == InitRace /\ [][NextQuantity]_vars

(***************************************************************************)
(* Claims                                                                  *)
(***************************************************************************)
\* The references of the lines of productId in the array arr, over the heap h.
LinesOf(h, arr, productId) ==
    {arr[i] : i \in {j \in 1..Len(arr) : h[arr[j]].productId = productId}}

\* The sum of a field over the first n lines of cart c.
RECURSIVE LinesTotal(_, _, _)
LinesTotal(c, field, n) ==
    IF n = 0 THEN 0 ELSE heap[items[c][n]][field] + LinesTotal(c, field, n - 1)

\* C1: every product getProduct returned has isExpensive == (price > 100) and
\* priceWithTax == price x 1.15 when price > 100, price x 1.10 when price <= 100.
\* (price in cents, priceWithTax in 1/100 cent.)
C1_TwoTierTax ==
    \A k \in 1..Len(calls) :
        (calls[k].op = "addProduct" /\ calls[k].pc = "isProductAvailable") =>
            LET p == calls[k].product IN
            /\ p.isExpensive = (p.price > 10000)
            /\ p.priceWithTax = IF p.price > 10000 THEN p.price * 115
                                ELSE p.price * 110

\* A product of price exactly 100 was fetched (110, not expensive) and the
\* cart holds the lines of the products of price 999 (1148.85) and 25 (27.5).
C1_Witness ==
    /\ \E k \in 1..Len(calls) :
          /\ calls[k].pc = "isProductAvailable"
          /\ calls[k].product.price = 10000
          /\ calls[k].product.priceWithTax = 1100000
          /\ ~calls[k].product.isExpensive
    /\ \E i \in 1..Len(items[1]) :
          /\ Line(1, i).price = 99900
          /\ Line(1, i).priceWithTax = 11488500
          /\ Line(1, i).isExpensive
    /\ \E i \in 1..Len(items[1]) :
          /\ Line(1, i).price = 2500
          /\ Line(1, i).priceWithTax = 275000
          /\ ~Line(1, i).isExpensive

\* C2: when availability evaluates to false in addProduct, the call is
\* rejected with a message naming the title of the product and the step leaves
\* the cart as it was: the same array of the same lines, no line changed.
C2_UnavailableLeavesCart ==
    [][\A k \in 1..Len(calls), random \in Draws :
         \A resp \in AxiosGet(calls[k].productId) :
            (AddProductChecked(k, resp, random)
               /\ ~isProductAvailable(resp, random)) =>
                  /\ items' = items
                  /\ heap' = heap
                  /\ last'.op = "addProduct" /\ ~last'.ok
                  /\ calls[k].product.title \in Elems(last'.message)]_vars

\* An addProduct was rejected as not available while the cart holds a line of
\* that product.
C2_Witness ==
    /\ last.op = "addProduct" /\ ~last.ok
    /\ Len(last.message) = 4
    /\ last.message[3] = Title(last.productId)
    /\ FindItem(items[last.cart], last.productId) # 0

\* C3: a successful addProduct(id, q) on a cart without a line of id leaves
\* exactly one line of id, of quantity q; on a cart holding one line of id, of
\* quantity q1, it leaves that one line, of quantity q1 + q; it returns that line.
C3_SameProductAccumulates ==
    [][\A k \in 1..Len(calls), random \in Draws :
         \A resp \in AxiosGet(calls[k].productId) :
            (AddProductChecked(k, resp, random)
               /\ isProductAvailable(resp, random)) =>
                  LET c == calls[k].cart
                      id == calls[k].productId
                      q == calls[k].quantity
                      before == LinesOf(heap, items[c], id)
                      after == LinesOf(heap', items'[c], id)
                  IN  Cardinality(before) <= 1 =>
                        /\ Cardinality(after) = 1
                        /\ last'.ok /\ last'.item \in after
                        /\ before # {} => after = before
                        /\ heap'[last'.item].quantity =
                             IF before = {} THEN q
                             ELSE heap[CHOOSE r \in before : TRUE].quantity + q]_vars

\* The second of two successful calls for a product, quantities 1 and 2 in
\* either order, returned the one line of the product, of quantity 3.
C3_Witness ==
    /\ last.op = "addProduct" /\ last.ok
    /\ nAdds = 2
    /\ Len(items[last.cart]) = 1
    /\ heap[last.item].quantity = 3
    /\ heap[last.item].productId = last.productId

\* C4: in every reachable state every line of every cart has
\* subtotal == quantity x the priceWithTax stored in the line.
C4_SubtotalIsQuantityTimesStoredPrice ==
    \A c \in Carts : \A i \in 1..Len(items[c]) :
        Line(c, i).subtotal = Line(c, i).quantity * Line(c, i).priceWithTax

\* C5: in every reachable state a cart holds at most one line per productId,
\* whatever the interleaving of addProduct and clearCart.
C5_OneLinePerProduct ==
    \A c \in Carts : \A i, j \in 1..Len(items[c]) :
        Line(c, i).productId = Line(c, j).productId => i = j

\* An addProduct that was started while another addProduct for the same
\* product was in flight has settled on the line the other one pushed.
C5_Witness ==
    /\ last.op = "addProduct" /\ last.ok /\ last.overlapped
    /\ heap[last.item].quantity > last.quantity
    /\ Len(items[last.cart]) = 1
\* The sum of the line subtotals of the cart the last summary is of (1/100 cent).
SummedSubtotal == LinesTotal(last.cart, "subtotal", Len(items[last.cart]))

\* C6: getCartSummary reports totalItems equal to the sum of the line
\* quantities and subtotal equal to the sum of the line subtotals rounded to
\* 2 decimals (the nearest cent); on an empty cart both are 0.
C6_SummarySums ==
    last.op = "getCartSummary" =>
        /\ last.totalItems = LinesTotal(last.cart, "quantity", Len(items[last.cart]))
        /\ 100 * last.subtotal - SummedSubtotal <= 50
        /\ SummedSubtotal - 100 * last.subtotal <= 50
        /\ items[last.cart] = <<>> => (last.totalItems = 0 /\ last.subtotal = 0)

\* The summary of a cart of three lines, some of quantity 2, whose subtotal
\* is not a whole number of cents.
C6_Witness ==
    /\ last.op = "getCartSummary"
    /\ Len(items[last.cart]) = 3
    /\ last.totalItems >= 4
    /\ SummedSubtotal % 100 # 0

\* C7 as stated: a discount is applied (hasDiscount, discount non-zero) if and
\* only if the reported, rounded subtotal is greater than 500.
C7_DiscountIffRoundedAbove500 ==
    last.op = "getCartSummary" =>
        ((last.hasDiscount /\ last.discount # 0) <=> last.subtotal > 50000)

\* C7 amended: a discount is applied if and only if the subtotal before
\* rounding is greater than 500: above 500 there is one, below 500 there is
\* none, and hasDiscount and a non-zero discount go together.
C7_DiscountIffUnroundedAbove500 ==
    last.op = "getCartSummary" =>
        /\ SummedSubtotal > 5000000 => (last.hasDiscount /\ last.discount # 0)
        /\ SummedSubtotal < 5000000 => (~last.hasDiscount /\ last.discount = 0)
        /\ last.hasDiscount <=> last.discount # 0

\* A cart of subtotal 500.0005: reported subtotal 500.00, discount 25.00.
C7_Witness ==
    /\ last.op = "getCartSummary"
    /\ SummedSubtotal = 5000005
    /\ last.subtotal = 50000
    /\ last.hasDiscount /\ last.discount = 2500

\* C8 as stated: the reported total equals the reported subtotal minus the
\* reported discount.
C8_TotalIsSubtotalMinusDiscount ==
    last.op = "getCartSummary" => last.total = last.subtotal - last.discount

\* C8 amended: the reported total is the subtotal before rounding minus the
\* discount before rounding (95% of the subtotal with a discount), rounded to
\* the nearest cent on its own: it is within 0.01 of the reported subtotal minus
\* the reported discount, and equal to the reported subtotal without a discount.
\* 19 * SummedSubtotal is the total in 1/2000 cent; the whole cents are split
\* off before the multiplication.
C8_TotalIsRoundedDifference ==
    last.op = "getCartSummary" =>
        /\ last.total - (last.subtotal - last.discount) \in {-1, 0, 1}
        /\ ~last.hasDiscount => last.total = last.subtotal
        /\ last.hasDiscount =>
             LET rest == 19 * (SummedSubtotal % 2000)
                 cents == last.total - 19 * (SummedSubtotal \div 2000)
             IN  /\ 2000 * cents - rest <= 1000
                 /\ rest - 2000 * cents <= 1000

\* The summary of the lines 85.43 x 2 and 434.79 x 1, subtotals 187.946 and
\* 500.0085: subtotal 687.95, discount 34.40, total 653.56.  No figure of it
\* is at a tie.
C8_Witness ==
    /\ last.op = "getCartSummary"
    /\ SummedSubtotal = 6879545
    /\ last.hasDiscount
    /\ last.subtotal = 68795 /\ last.discount = 3440 /\ last.total = 65356

\* C9: a write of the caller to what getItems() returned (the array or a line
\* in it) leaves the lines of every cart as they were.
C9_ReturnedItemsAreDetached ==
    [][CallerMutation => \A c \in Carts : CartLines(c)' = CartLines(c)]_vars

\* Whether validateCart's step k pushed an available result.
PushedAvailable(k) ==
    IF Len(calls') = Len(calls)
    THEN calls'[k].results[Len(calls[k].results) + 1].isAvailable
    ELSE Len(last'.availableItems) =
            1 + Cardinality({i \in 1..Len(calls[k].results) :
                                calls[k].results[i].isAvailable})

\* C10: isProductAvailable, its fetch returning a product of price <= 100,
\* is true whatever the draw: addProduct goes on and succeeds, validateCart
\* records the line as available.
C10_CheapIsAlwaysAvailable ==
    [][\A k \in 1..Len(calls), random \in Draws :
         \A resp \in AxiosGet(calls[k].productId) :
            (resp.ok /\ resp.data.price <= 10000) =>
               /\ AddProductChecked(k, resp, random) => last'.ok
               /\ ValidateChecked(k, resp, random) => PushedAvailable(k)]_vars

\* Product 2, of price exactly 100 at every fetch, was added.
C10_Witness ==
    /\ last.op = "addProduct" /\ last.ok
    /\ last.productId = 2
    /\ heap[last.item].price = 10000

\* C11: isProductAvailable never rejects: it settles with a boolean, and
\* whenever its fetch failed, whatever the product id and the cause, the
\* boolean is false.
C11_FailedLookupIsUnavailable ==
    last.op = "isProductAvailable" =>
        /\ last.result \in BOOLEAN
        /\ ~last.fetchOk => last.result = FALSE

\* isProductAvailable(3) answered false after its fetch failed with "API caida".
C11_Witness ==
    /\ last.op = "isProductAvailable"
    /\ last.productId = 3
    /\ ~last.fetchOk
    /\ last.result = FALSE

\* C12: a getProduct call issues exactly one fetch and settles when that fetch
\* settles, fulfilled or rejected: it never fetches again.  On a failed fetch
\* it rejects with `No se pudo obtener el producto: ` followed by the message
\* of the cause.
C12_OneFetchPerGetProduct ==
    [][\A k \in {j \in 1..Len(calls) : calls[j].op = "getProduct"} :
         \A resp \in AxiosGet(calls[k].productId) :
            GetProductSettled(k, resp) =>
               /\ calls[k].fetches = 1
               /\ calls' = RemoveAt(calls, k)
               /\ last'.op = "getProduct" /\ last'.fetches = 1
               /\ last'.result.ok = resp.ok
               /\ ~resp.ok =>
                     last'.result.message =
                        <<"No se pudo obtener el producto: ">> \o resp.message]_vars

\* getProduct(2) was rejected after one fetch, its message ending with the
\* cause "Network timeout".
C12_Witness ==
    /\ last.op = "getProduct"
    /\ last.productId = 2
    /\ ~last.result.ok
    /\ last.fetches = 1
    /\ last.result.message[Len(last.result.message)] = "Network timeout"
    /\ calls = <<>>

\* C13: when the lookup of addProduct fails, addProduct rejects with
\* `No se pudo agregar al carrito: No se pudo obtener el producto: ` followed
\* by the message of the cause, isProductAvailable is not called (the call has
\* issued its one fetch only), and the cart keeps the lines it had, unchanged.
C13_FailedLookupLeavesCart ==
    [][\A k \in 1..Len(calls) :
         \A resp \in AxiosGet(calls[k].productId) :
            (AddProductFetched(k, resp) /\ ~resp.ok) =>
               /\ items' = items
               /\ heap' = heap
               /\ calls' = RemoveAt(calls, k)
               /\ last'.op = "addProduct" /\ ~last'.ok
               /\ last'.message = <<"No se pudo agregar al carrito: ",
                                    "No se pudo obtener el producto: ">>
                                     \o resp.message
               /\ last'.fetches = 1]_vars

\* addProduct(2, ..) was rejected with the cause "API caida" on a cart that
\* holds one line, of product 1.
C13_Witness ==
    /\ last.op = "addProduct" /\ ~last.ok
    /\ last.productId = 2
    /\ last.fetches = 1
    /\ last.message[3] = "API caida"
    /\ Len(items[last.cart]) = 1
    /\ Line(last.cart, 1).productId = 1

\* C14: with Math.random() fixed at 0.1, addProduct succeeds for every
\* product whose two fetches succeed, whatever its price.
C14_DrawOneTenthIsAvailable ==
    [][\A k \in 1..Len(calls) :
         \A resp \in AxiosGet(calls[k].productId) :
            (AddProductChecked(k, resp, 1) /\ resp.ok) => last'.ok]_vars

\* C15: an addProduct that succeeds has issued exactly two fetches
\* (getProduct, then isProductAvailable, both for its productId); a
\* validateCart that returns has issued exactly one fetch per line of the
\* cart.  After three addProduct calls that made three lines, a validateCart
\* brings the fetches to 3 x 2 + 3 = 9.
C15_FetchesPerCall ==
    /\ (last.op = "addProduct" /\ last.ok) => last.fetches = 2
    /\ last.op = "validateCart" =>
          /\ last.fetches = Len(items[last.cart])
          /\ last.fetches = last.totalItems
          /\ (nAdds = 3 /\ Len(items[last.cart]) = 3) =>
                2 * nAdds + last.fetches = 9

\* Three addProduct calls made the lines of products 1, 2 and 3 and
\* validateCart returned after three fetches.
C15_Witness ==
    /\ last.op = "validateCart"
    /\ nAdds = 3
    /\ {Line(last.cart, i).productId : i \in 1..Len(items[last.cart])} = {1, 2, 3}
    /\ last.fetches = 3

\* C16 as stated: an addProduct that was in flight together with another one
\* for the same product and finds the line of the product loses an update:
\* the line ends with less than its quantity plus the quantity added, or the
\* cart ends with two lines of the product.
C16_OverlappingAddLosesUpdate ==
    [][\A k \in 1..Len(calls), random \in Draws :
         \A resp \in AxiosGet(calls[k].productId) :
            LET c == calls[k].cart
                id == calls[k].productId
                before == LinesOf(heap, items[c], id)
                after == LinesOf(heap', items'[c], id)
            IN  (AddProductChecked(k, resp, random) /\ last'.ok
                   /\ calls[k].overlaps /\ before # {}) =>
                     \/ Cardinality(after) = 2
                     \/ heap'[last'.item].quantity <
                          heap[CHOOSE r \in before : TRUE].quantity
                            + calls[k].quantity]_vars

\* C16 amended: no interleaving of addProduct calls loses an update.  The
\* find and the increment or push run in one step after the last await: an
\* addProduct that succeeds leaves exactly one line of its product, with the
\* quantity the line had just before plus the quantity added (the quantity
\* added, when there was no line), also when another addProduct for the same
\* product was in flight together with it.
C16_NoLostUpdate ==
    [][\A k \in 1..Len(calls), random \in Draws :
         \A resp \in AxiosGet(calls[k].productId) :
            LET c == calls[k].cart
                id == calls[k].productId
                before == LinesOf(heap, items[c], id)
                after == LinesOf(heap', items'[c], id)
            IN  (AddProductChecked(k, resp, random) /\ last'.ok) =>
                   /\ Cardinality(after) = 1
                   /\ last'.item \in after
                   /\ heap'[last'.item].quantity =
                        calls[k].quantity +
                          (IF before = {} THEN 0
                           ELSE heap[CHOOSE r \in before : TRUE].quantity)]_vars

\* Two addProduct calls for one product, of quantities 1 and 2, were in
\* flight together; both succeeded and the one line has quantity 3.
C16_Witness ==
    /\ last.op = "addProduct" /\ last.ok /\ last.overlapped
    /\ nAdds = 2 /\ calls = <<>>
    /\ Len(heap) = 1
    /\ heap[last.item].quantity = 3

\* C17: validateCart evaluates isProductAvailable once for every line of the
\* cart (one fetch each) and returns availableItems, holding the lines whose
\* verdict was true, and unavailableItems, holding those whose verdict was
\* false: every line of the cart is in exactly one of them; totalItems is the
\* number of lines, isValid is true if and only if unavailableItems is empty,
\* and an empty cart gives isValid true with totalItems 0.
C17_ValidatePartitions ==
    last.op = "validateCart" =>
        LET c == last.cart
            A == last.availableItems
            U == last.unavailableItems
            InA(id) == {i \in 1..Len(A) : A[i].productId = id}
            InU(id) == {i \in 1..Len(U) : U[i].productId = id}
        IN  /\ last.totalItems = Len(items[c])
            /\ last.fetches = Len(items[c])
            /\ Len(A) + Len(U) = last.totalItems
            /\ \A i \in 1..Len(A) : A[i].isAvailable
            /\ \A i \in 1..Len(U) : ~U[i].isAvailable
            /\ \A i \in 1..Len(items[c]) :
                  Cardinality(InA(Line(c, i).productId))
                    + Cardinality(InU(Line(c, i).productId)) = 1
            /\ last.isValid <=> U = <<>>
            /\ items[c] = <<>> => (last.isValid /\ last.totalItems = 0)

\* A cart of three lines was validated: some lines available, some not.
C17_Witness ==
    /\ last.op = "validateCart"
    /\ last.totalItems = 3
    /\ last.availableItems # <<>>
    /\ last.unavailableItems # <<>>
    /\ ~last.isValid

\* C18: getCartSummary is pure: a call issues no fetch and does not suspend
\* (no call is put in flight, the calls in flight stay where they are), it
\* leaves the lines of the cart and their order as they are, and a call right
\* after another one, nothing having changed the cart in between, returns the
\* same figures.
C18_SummaryIsPure ==
    [][\A c \in Carts :
         GetCartSummary(c) =>
            /\ calls' = calls
            /\ items' = items
            /\ heap' = heap
            /\ CartLines(c)' = CartLines(c)
            /\ last'.op = "getCartSummary"
            /\ (last.op = "getCartSummary" /\ last.cart = c) =>
                  /\ last'.total = last.total
                  /\ last'.subtotal = last.subtotal
                  /\ last'.discount = last.discount
                  /\ last'.totalItems = last.totalItems
                  /\ last'.hasDiscount = last.hasDiscount]_vars

\* The summary of a cart whose subtotal, 560.395, ends in half a cent.
C18_Witness ==
    /\ last.op = "getCartSummary"
    /\ items[last.cart] # <<>>
    /\ SummedSubtotal = 5603950
    /\ last.total = 53238

\* C19: getProductsByCategory returns one product per item of the answer, in
\* the order of the answer, each with isExpensive == (price > 100) and
\* priceWithTax by the rule of getProduct; when the fetch fails the call
\* rejects with `No se pudieron obtener productos de la categoria: ` followed
\* by the message of the cause, and returns no list.
C19_CategoryListEnriched ==
    last.op = "getProductsByCategory" =>
        LET r == last.result
            up == last.upstream
        IN  /\ last.fetches = 1
            /\ r.ok = last.fetchOk
            /\ r.ok =>
                  /\ Len(r.products) = Len(up)
                  /\ \A i \in 1..Len(up) :
                        LET p == r.products[i]
                            one == getProduct([ok |-> TRUE, data |-> up[i],
                                               message |-> <<>>]).product
                        IN  /\ p.id = up[i].id
                            /\ p.title = up[i].title
                            /\ p.price = up[i].price
                            /\ p.isExpensive = (up[i].price > 10000)
                            /\ p.priceWithTax = IF up[i].price > 10000
                                                THEN up[i].price * 115
                                                ELSE up[i].price * 110
                            /\ p.isExpensive = one.isExpensive
                            /\ p.priceWithTax = one.priceWithTax
            /\ ~r.ok =>
                  /\ r.products = <<>>
                  /\ r.message =
                       <<"No se pudieron obtener productos de la categoria: ">>
                         \o last.cause

\* The answer held product 3 at 150 and then product 1 at 100: the list
\* returned holds them in that order, the first expensive at 172.5, the
\* second not expensive at 110.
C19_Witness ==
    /\ last.op = "getProductsByCategory"
    /\ last.result.ok
    /\ Len(last.result.products) = 2
    /\ last.result.products[1].id = 3
    /\ last.result.products[1].priceWithTax = 1725000
    /\ last.result.products[1].isExpensive
    /\ last.result.products[2].id = 1
    /\ last.result.products[2].priceWithTax = 1100000
    /\ ~last.result.products[2].isExpensive

\* C20: the increment of addProduct changes the quantity and the subtotal of
\* the line it found and nothing else: productId, title, price, priceWithTax
\* and isExpensive of the line stay as copied when the line was made, whatever
\* the price and the tier of the product fetched for the increment, every
\* other line and the array stay as they are.
C20_IncrementKeepsCopiedFields ==
    [][\A k \in 1..Len(calls), random \in Draws :
         \A resp \in AxiosGet(calls[k].productId) :
            LET c == calls[k].cart
                existing == FindItem(items[c], calls[k].productId)
            IN  (AddProductChecked(k, resp, random) /\ last'.ok
                   /\ existing # 0) =>
                     LET ref == items[c][existing] IN
                     /\ items' = items
                     /\ Len(heap') = Len(heap)
                     /\ \A r \in 1..Len(heap) : r # ref => heap'[r] = heap[r]
                     /\ heap'[ref] =
                          [heap[ref] EXCEPT !.quantity = heap'[ref].quantity,
                                            !.subtotal = heap'[ref].subtotal]]_vars

\* The line of product 2 was made at price 80 and incremented with the product
\* fetched at price 150: it still says price 80, priceWithTax 88, not
\* expensive, and its subtotal is 4 x 172.5.  The cart holds another line.
C20_Witness ==
    /\ last.op = "addProduct" /\ last.ok /\ last.productId = 2
    /\ heap[last.item].price = 8000
    /\ heap[last.item].priceWithTax = 880000
    /\ ~heap[last.item].isExpensive
    /\ heap[last.item].quantity = 4
    /\ heap[last.item].subtotal = 4 * 1725000
    /\ Len(items[last.cart]) = 2

\* C21: between two clearCart calls the lines of a cart only grow: a step
\* that is not clearCart keeps every line of the cart at its place in the
\* array, with its productId and with a quantity no smaller than before (every
\* addProduct is called with a quantity >= 1), so the set of productIds in the
\* cart only grows; and a step that neither is clearCart nor completes an
\* addProduct (every step of validateCart, getCartSummary and getItems, and
\* the steps of an addProduct before its last) changes no line and not the
\* array.
C21_LinesOnlyGrow ==
    [][\A c \in Carts :
         ~ClearCart(c) =>
            /\ Len(items'[c]) >= Len(items[c])
            /\ \A i \in 1..Len(items[c]) :
                  /\ items'[c][i] = items[c][i]
                  /\ heap'[items[c][i]].productId = heap[items[c][i]].productId
                  /\ heap'[items[c][i]].quantity >= heap[items[c][i]].quantity
            /\ {Line(c, i).productId : i \in 1..Len(items[c])} \subseteq
                  {heap'[items'[c][i]].productId : i \in 1..Len(items'[c])}
            /\ ~(Len(calls') < Len(calls) /\ last'.op = "addProduct") =>
                  (heap' = heap /\ items' = items)]_vars

\* getItems returned the one line of the cart, and an addProduct after it
\* pushed a second line behind the first.
C21_Witness ==
    /\ last.op = "addProduct" /\ last.ok
    /\ held = <<1>>
    /\ items[last.cart] = <<1, 2>>
    /\ last.item = 2

\* C22: every addProduct being called with a quantity >= 1, every line of
\* every cart has quantity >= 1 in every reachable state.
C22_QuantityAtLeastOne ==
    \A c \in Carts : \A i \in 1..Len(items[c]) : Line(c, i).quantity >= 1

\* Two calls of quantity 1 for one product: the line was pushed with quantity
\* 1 and incremented to 2.
C22_Witness ==
    /\ last.op = "addProduct" /\ last.ok /\ last.quantity = 1
    /\ nAdds = 2
    /\ Len(heap) = 1
    /\ heap[last.item].quantity = 2
    /\ items[last.cart] = <<last.item>>

\* C23: isProductAvailable of a product its fetch returned with a price above
\* 100 is true exactly when the draw of that call is greater than 0.3 (0.3
\* itself and less give false); the draw is taken at the call, so that the
\* same answer of the fetch gets the other verdict with another draw.
C23_ExpensiveAvailableAboveThreshold ==
    (last.op = "isProductAvailable" /\ last.fetchOk /\ last.price > 10000) =>
        /\ last.result = (last.random > 3)
        /\ last.random <= 3 => last.result = FALSE
        /\ \E random \in Draws :
              isProductAvailable(
                 [ok |-> TRUE,
                  data |-> [id |-> last.productId,
                            title |-> Title(last.productId),
                            price |-> last.price],
                  message |-> <<>>], random) # last.result

\* isProductAvailable(3), the product fetched at price 200, answered false
\* at a draw of exactly 0.3.
C23_Witness ==
    /\ last.op = "isProductAvailable"
    /\ last.productId = 3
    /\ last.fetchOk /\ last.price = 20000
    /\ last.random = 3
    /\ last.result = FALSE

\* C24: in addProduct, the product fetched, when the fetch made by
\* isProductAvailable fails, the call rejects as not available, with
\* `No se pudo agregar al carrito: Producto <title> no disponible en stock`,
\* <title> the title of the product just fetched; the message carries neither
\* the lookup failure nor the cause of the failed fetch; the cart keeps its
\* array and its lines unchanged.
C24_FailedAvailabilityFetchIsNotAvailable ==
    [][\A k \in 1..Len(calls), random \in Draws :
         \A resp \in AxiosGet(calls[k].productId) :
            (AddProductChecked(k, resp, random) /\ ~resp.ok) =>
               /\ items' = items
               /\ heap' = heap
               /\ calls' = RemoveAt(calls, k)
               /\ last'.op = "addProduct" /\ ~last'.ok
               /\ last'.message = <<"No se pudo agregar al carrito: ",
                                    "Producto ", calls[k].product.title,
                                    " no disponible en stock">>
               /\ Elems(last'.message) \cap Causes = {}
               /\ "No se pudo obtener el producto: " \notin Elems(last'.message)
               /\ last'.fetches = 2]_vars

\* addProduct(2, ..), the product fetched at price 80 and never expensive, was
\* rejected as not available after its second fetch, on a cart holding the
\* line of product 1.
C24_Witness ==
    /\ last.op = "addProduct" /\ ~last.ok
    /\ last.productId = 2
    /\ last.fetches = 2
    /\ last.message = <<"No se pudo agregar al carrito: ", "Producto ",
                        "Magic Mouse", " no disponible en stock">>
    /\ Len(items[last.cart]) = 1
    /\ Line(last.cart, 1).productId = 1

\* C25: getCartSummary rounds each figure on its own from the figures before
\* rounding: with a discount, the reported discount is 5% of the whole
\* subtotal before rounding (SummedSubtotal / 2000 cents), rounded to the
\* cent, and the reported total is 95% of it, rounded to the cent; without a
\* discount the discount is 0 and the total is the subtotal; the reported
\* total is within 0.01 of the reported subtotal minus the reported discount;
\* and the lines 2300, 176 and 172.5, subtotal 2648.5, give total 2516.08.
C25_IndependentRounding ==
    last.op = "getCartSummary" =>
        /\ last.hasDiscount =>
              /\ 2000 * last.discount - SummedSubtotal <= 1000
              /\ SummedSubtotal - 2000 * last.discount <= 1000
              /\ LET rest == 19 * (SummedSubtotal % 2000)
                     cents == last.total - 19 * (SummedSubtotal \div 2000)
                 IN  /\ 2000 * cents - rest <= 1000
                     /\ rest - 2000 * cents <= 1000
        /\ ~last.hasDiscount =>
              (last.discount = 0 /\ last.total = last.subtotal)
        /\ last.total - (last.subtotal - last.discount) \in {-1, 0, 1}
        /\ SummedSubtotal = 26485000 =>
              /\ last.subtotal = 264850
              /\ last.total = 251608

\* Whether every result validateCart call k has gathered so far is available.
AllAvailableSoFar(k) ==
    \A i \in 1..Len(calls[k].results) : calls[k].results[i].isAvailable

\* C26: validateCart evaluates the availability of every line afresh, with
\* its own fetch and its own draw: the verdict it records for a line is that
\* of this fetch and this draw, so that a line addProduct accepted is recorded
\* unavailable when the product is fetched as expensive and the draw is 0.3 or
\* less, the cart unchanged; a line whose product is fetched as not expensive
\* is recorded available, and validateCart returns isValid true exactly when
\* every line was recorded available: always, when every fetch succeeds with a
\* product that is not expensive.
C26_ValidateEvaluatesAfresh ==
    [][\A k \in 1..Len(calls), random \in Draws :
         \A resp \in AxiosGet(calls[k].productId) :
            ValidateChecked(k, resp, random) =>
               LET returns == Len(calls') < Len(calls) IN
               /\ heap' = heap /\ items' = items
               /\ PushedAvailable(k) = isProductAvailable(resp, random)
               /\ (resp.ok /\ resp.data.price > 10000 /\ random <= 3) =>
                     ~PushedAvailable(k)
               /\ (resp.ok /\ resp.data.price <= 10000) =>
                     /\ PushedAvailable(k)
                     /\ (returns /\ AllAvailableSoFar(k)) => last'.isValid
               /\ returns =>
                     (last'.isValid <=>
                        (AllAvailableSoFar(k) /\ PushedAvailable(k)))]_vars

\* The one addProduct of the run made the line of product 1, and validateCart,
\* the cart as addProduct left it, reports that line unavailable.
C26_Witness ==
    /\ last.op = "validateCart" /\ ~last.isValid
    /\ nAdds = 1
    /\ Len(items[last.cart]) = 1
    /\ Line(last.cart, 1).productId = 1
    /\ Len(last.unavailableItems) = 1
    /\ last.unavailableItems[1].productId = 1
    /\ last.unavailableItems[1].quantity = Line(last.cart, 1).quantity

\* C27: an operation on one CartService changes no other CartService's cart:
\* the last step of an addProduct and clearCart leave the array and the lines
\* of every other cart as they are, every other step leaves every cart as it
\* is, and no line is in two carts.  The users' addProduct calls for the same
\* productId being in flight together, each call that succeeds leaves its own
\* cart with exactly one line, of that productId and of the quantity of this
\* call, in whatever order the calls settle.
C27_CartsAreSeparate ==
    [][/\ \A k \in 1..Len(calls), random \in Draws :
            \A resp \in AxiosGet(calls[k].productId) :
               AddProductChecked(k, resp, random) =>
                  LET c == calls[k].cart IN
                  /\ \A d \in Users \ {c} :
                        items'[d] = items[d] /\ CartLines(d)' = CartLines(d)
                  /\ last'.ok =>
                        /\ items'[c] = <<last'.item>>
                        /\ heap'[last'.item].productId = calls[k].productId
                        /\ heap'[last'.item].quantity = calls[k].quantity
       /\ \A c \in Users :
            ClearCart(c) =>
               \A d \in Users \ {c} :
                  items'[d] = items[d] /\ CartLines(d)' = CartLines(d)
       /\ (Len(calls') >= Len(calls) /\ \A c \in Users : ~ClearCart(c)) =>
            (items' = items /\ heap' = heap)
       /\ \A c, d \in Users :
            c # d => Elems(items'[c]) \cap Elems(items'[d]) = {}]_vars

\* Three users, of quantities 1, 2 and 1, had their calls in flight together;
\* the call of the first user settled last, and every cart holds its own one
\* line with its own quantity.
C27_Witness ==
    /\ nAdds = 3 /\ calls = <<>>
    /\ items[1] = <<3>> /\ heap[3].quantity = 1
    /\ items[2] = <<1>> /\ heap[1].quantity = 2
    /\ items[3] = <<2>> /\ heap[2].quantity = 1
    /\ last.op = "addProduct" /\ last.cart = 1 /\ last.ok

\* C28: validateCart never fails and never changes the cart.  Every step of
\* it leaves the array and the lines (quantities, subtotals, order) as they
\* are; a line whose fetch fails is recorded unavailable, and validateCart
\* goes on to the next line of the array it iterates; it returns a result,
\* with isValid false and a non-empty unavailableItems once a line was
\* recorded unavailable.
C28_ValidateNeverFailsNorChanges ==
    [][/\ \A k \in {j \in 1..Len(calls) : calls[j].op = "validateCart"} :
            \A random \in Draws, resp \in AxiosGet(calls[k].productId) :
               ValidateChecked(k, resp, random) =>
                  LET returns == Len(calls') < Len(calls)
                      arr == IF calls[k].live THEN items[calls[k].cart]
                             ELSE calls[k].arr
                      more == calls[k].idx < Len(arr)
                  IN  /\ heap' = heap /\ items' = items
                      /\ \A c \in Carts : CartLines(c)' = CartLines(c)
                      /\ ~resp.ok => ~PushedAvailable(k)
                      /\ more <=> ~returns
                      /\ more =>
                            /\ calls'[k].idx = calls[k].idx + 1
                            /\ calls'[k].item = arr[calls[k].idx + 1]
                            /\ SubSeq(calls'[k].results, 1, Len(calls[k].results))
                                  = calls[k].results
                      /\ returns =>
                            /\ last'.op = "validateCart"
                            /\ last'.isValid \in BOOLEAN
                            /\ last'.totalItems = Len(calls[k].results) + 1
                            /\ (~resp.ok \/ ~AllAvailableSoFar(k)) =>
                                  (~last'.isValid /\ last'.unavailableItems # <<>>)
       /\ \A c \in Carts :
            ValidateCartCall(c, 1) => (heap' = heap /\ items' = items)]_vars

\* validateCart of a cart of three lines: the first, of product 2 (price 80 at
\* every fetch, never expensive), is reported unavailable, its fetch having
\* failed, and the two lines validated after it available.
C28_Witness ==
    /\ last.op = "validateCart" /\ ~last.isValid
    /\ last.totalItems = 3
    /\ Len(items[last.cart]) = 3
    /\ Line(last.cart, 1).productId = 2
    /\ Len(last.unavailableItems) = 1
    /\ last.unavailableItems[1].productId = 2
    /\ Len(last.availableItems) = 2

\* C29: addProduct does not look at the quantity it is given: whenever the
\* product is available the call succeeds, for a quantity of 0 or below as for
\* any other, and pushes a line of that quantity and of subtotal quantity x
\* priceWithTax, or adds the quantity to the line of the product and sets its
\* subtotal to the new quantity x priceWithTax: zero or negative as they come.
C29_QuantityIsNotValidated ==
    [][\A k \in 1..Len(calls), random \in Draws :
         \A resp \in AxiosGet(calls[k].productId) :
            (AddProductChecked(k, resp, random)
               /\ isProductAvailable(resp, random)) =>
                  LET c == calls[k].cart
                      q == calls[k].quantity
                      existing == FindItem(items[c], calls[k].productId)
                      old == IF existing = 0 THEN 0
                             ELSE Line(c, existing).quantity
                  IN  /\ last'.op = "addProduct" /\ last'.ok
                      /\ existing = 0 => items'[c] = Append(items[c], last'.item)
                      /\ existing # 0 =>
                            (items' = items /\ last'.item = items[c][existing])
                      /\ heap'[last'.item].quantity = old + q
                      /\ heap'[last'.item].subtotal =
                            (old + q) * calls[k].product.priceWithTax]_vars

\* addProduct(1, 0) and addProduct(2, -1) both succeeded: the cart holds a
\* line of quantity 0 and subtotal 0 and a line of quantity -1 and subtotal -88.
C29_Witness ==
    /\ last.op = "addProduct" /\ last.ok
    /\ last.productId = 2 /\ last.quantity = -1
    /\ Len(items[last.cart]) = 2
    /\ Line(last.cart, 1).productId = 1
    /\ Line(last.cart, 1).quantity = 0 /\ Line(last.cart, 1).subtotal = 0
    /\ heap[last.item].quantity = -1
    /\ heap[last.item].subtotal = -880000

\* C30: right after clearCart the cart is empty: getItems returns an empty
\* array and getCartSummary reports totalItems 0, subtotal 0, discount 0,
\* total 0 and no discount.  clearCart leaves the addProduct calls in flight
\* as they are, and such a call, finding no line of its product, pushes a new
\* line that carries the quantity of this call only: the cart does not stay
\* empty.
C30_ClearEmptiesButAddsInFlightLand ==
    [][/\ \A c \in Carts :
            ClearCart(c) =>
               /\ items'[c] = <<>>
               /\ getItems(c)' = <<>>
               /\ \A tie \in Ties :
                     /\ getCartSummary(c, tie)'.totalItems = 0
                     /\ getCartSummary(c, tie)'.subtotal = 0
                     /\ getCartSummary(c, tie)'.discount = 0
                     /\ getCartSummary(c, tie)'.total = 0
                     /\ ~getCartSummary(c, tie)'.hasDiscount
               /\ Len(calls') = Len(calls)
               /\ \A k \in 1..Len(calls) :
                     calls[k].op = "addProduct" => calls'[k] = calls[k]
       /\ \A k \in 1..Len(calls), random \in Draws :
            \A resp \in AxiosGet(calls[k].productId) :
               (AddProductChecked(k, resp, random)
                  /\ isProductAvailable(resp, random)
                  /\ FindItem(items[calls[k].cart], calls[k].productId) = 0) =>
                     /\ last'.ok
                     /\ last'.item = Len(heap) + 1
                     /\ items'[calls[k].cart] =
                          Append(items[calls[k].cart], last'.item)
                     /\ heap'[last'.item].quantity = calls[k].quantity]_vars

\* Two addProduct calls for one product were in flight together; the first
\* made its line, of quantity 2; clearCart ran; the second, of quantity 1,
\* pushed a new line of quantity 1, the only line of the cart.
C30_Witness ==
    /\ last.op = "addProduct" /\ last.ok /\ last.overlapped
    /\ nAdds = 2 /\ calls = <<>>
    /\ Len(heap) = 2
    /\ heap[1].productId = last.productId /\ heap[1].quantity = 2
    /\ items[last.cart] = <<2>>
    /\ last.item = 2 /\ last.quantity = 1
    /\ heap[2].quantity = 1
====
